---------------------------- MODULE Spec2Model ----------------------------
(***************************************************************************)
(* A model of OnlineArchiveSorter (src/online_archive_sorter_v02_06a.py):  *)
(* rule compilation from the workbook (load_data), sender resolution with  *)
(* the SMTP cache (get_smtp_address), classification (process_email), the  *)
(* delete/move action (execute_action, get_folder_recursive) and the batch *)
(* run (run_archive_processing, _process_folder_items, save_smtp_cache).   *)
(*                                                                         *)
(* Text is a sequence of one-character strings, so that lower(), split()   *)
(* and Python's substring test "a in b" are computed, not assumed.         *)
(* An optional value (a key that may be absent, a field that may be None)  *)
(* is a sequence of length 0 or 1.                                         *)
(***************************************************************************)
EXTENDS Integers, Sequences, FiniteSets, TLC

\* ------------------------------------------------------------------ bounds
MaxItems == 3        \* items in the folder being processed at the first run
MaxRows == 2         \* entries of the configuration's sheet_map
MaxInterval == 2     \* largest cache_save_interval tried
MaxFaults == 1       \* failures of external calls injected in one process
MaxRuns == 2         \* invocations of run_archive_processing on one instance

\* -------------------------------------------------------------------- text
Upper == <<"A","B","C","D","E","F","G","H","I","J","K","L","M",
           "N","O","P","Q","R","S","T","U","V","W","X","Y","Z">>
Lowercase == <<"a","b","c","d","e","f","g","h","i","j","k","l","m",
               "n","o","p","q","r","s","t","u","v","w","x","y","z">>

\* str.lower() on one character
LowerChar(c) ==
    IF \E k \in 1..26 : Upper[k] = c
    THEN Lowercase[CHOOSE k \in 1..26 : Upper[k] = c]
    ELSE c

\* str.lower()
Lower(s) == [k \in 1..Len(s) |-> LowerChar(s[k])]

\* Python's "sub in s" on strings: sub occurs as a contiguous substring
Contains(sub, s) ==
    \E k \in 0..(Len(s) - Len(sub)) : SubSeq(s, k + 1, k + Len(sub)) = sub

Range(s) == {s[k] : k \in 1..Len(s)}

\* str.split('\\'): the segments between backslashes, empty ones included
RECURSIVE SplitFrom(_, _, _)
SplitFrom(s, k, cur) ==
    IF k > Len(s) THEN <<cur>>
    ELSE IF s[k] = "\\" THEN <<cur>> \o SplitFrom(s, k + 1, <<>>)
    ELSE SplitFrom(s, k + 1, Append(cur, s[k]))

Split(s) == SplitFrom(s, 1, <<>>)

\* ------------------------------------------------- insertion-ordered dicts
\* A Python dict is a sequence of [key, val] entries in insertion order;
\* assigning an existing key replaces its value and keeps its position.
DictHas(d, key) == \E k \in 1..Len(d) : d[k].key = key

DictGet(d, key) == d[CHOOSE k \in 1..Len(d) : d[k].key = key].val

DictSet(d, key, val) ==
    IF DictHas(d, key)
    THEN [k \in 1..Len(d) |-> IF d[k].key = key THEN [key |-> key, val |-> val] ELSE d[k]]
    ELSE Append(d, [key |-> key, val |-> val])

\* --------------------------------------------------------- program literals
MAIL_ITEM_CLASS == 43
ExchangeUserType == 0

\* start_task destroys the window before it starts the worker, and __main__
\* constructs one sorter: one invocation of run_archive_processing a process.
Invocations == 1

ToDelete == <<"T","o","D","e","l","e","t","e">>
ROOT == <<"R","O","O","T">>
EmailWord == <<"E","m","a","i","l">>
KeywordWord == <<"K","e","y","w","o","r","d">>
ResearchEmail == <<"R","e","s","e","a","r","c","h">> \o EmailWord


\* ------------------------------------------------- the workbook (xls_path)
\* A missing cell, which pandas reads as NaN and dropna() removes.
NaN == <<"NaN">>

AX == <<"A","@","x">>
aX == <<"a","@","x">>
bY == <<"b","@","y">>
cZ == <<"c","@","z">>

\* The rule sheets: sheet name -> column name -> cells, top to bottom.
Workbook ==
    ( "SendersA" :> ("Addr" :> <<AX, NaN, bY, aX>>) ) @@
    ( "SendersB" :> ("Addr" :> <<aX>>) ) @@
    ( "Words"    :> ("Subj" :> <<<<"I","n","v">>, NaN, <<"i","n","v">>>> @@
                     "Body" :> <<<<"p","a","y">>>>) ) @@
    ( "Words2"   :> ("Subj" :> <<<<"N","V">>>>) )

\* Entries the configuration's sheet_map can hold. column, columns and
\* match_field are optional keys of an entry.
RuleRow(name, sheet, dest, column, columns, field) ==
    [rule_name |-> name, sheet |-> sheet, destination_name |-> dest,
     column |-> column, columns |-> columns, match_field |-> field]

PromoWeekly == <<"P","\\","W">>
InboxName == <<"I">>

RowCatalogue ==
    { RuleRow(<<"D","e","l">> \o EmailWord, "SendersA", ToDelete, <<"Addr">>, <<>>, <<>>),
      RuleRow(ResearchEmail, "SendersB", <<"R">>, <<"Addr">>, <<>>, <<>>),
      RuleRow(<<"M","v">> \o EmailWord, "SendersB", PromoWeekly, <<"Addr">>, <<>>, <<>>),
      RuleRow(<<"D","e","l">> \o KeywordWord, "Words", ToDelete, <<"Subj">>, <<>>, <<>>),
      RuleRow(<<"P">> \o KeywordWord, "Words", PromoWeekly, <<>>,
              << <<"Subj", "Body">> >>, <<"subject_and_body">>),
      RuleRow(EmailWord \o KeywordWord, "Words2", InboxName, <<"Subj">>, <<>>,
              <<"subject_only">>),
      RuleRow(<<"B","a","d">> \o EmailWord, "SendersA", <<"Q">>, <<"Missing">>, <<>>, <<>>),
      RuleRow(<<"B","a","d">> \o KeywordWord, "Words", <<"Q">>, <<>>,
              << <<"Body", "Missing">> >>, <<>>) }

\* -------------------------------------------------------------- load_data
\* df[col].dropna()
DropNa(cells) == SelectSeq(cells, LAMBDA c : c # NaN)

\* Series.unique(): first occurrences, in order
Unique(cells) ==
    LET keep(k) == \A j \in 1..(k - 1) : cells[j] # cells[k]
        F[k \in 0..Len(cells)] ==
            IF k = 0 THEN <<>>
            ELSE IF keep(k) THEN Append(F[k - 1], cells[k]) ELSE F[k - 1]
    IN F[Len(cells)]

\* 'Email' in rule_name and 'Keyword' not in rule_name
IsEmailCategory(rule_name) ==
    Contains(EmailWord, rule_name) /\ ~Contains(KeywordWord, rule_name)

\* self.email_rules[addr.lower()] = {"dest": dest, "sender_only": ...}
EmailRuleAssignFirstWins(rules, addr, dest, sender_only) ==
    IF DictHas(rules, Lower(addr)) THEN rules
    ELSE DictSet(rules, Lower(addr), [dest |-> dest, sender_only |-> sender_only])

EmailRuleAssign(rules, addr, dest, sender_only) ==
    DictSet(rules, Lower(addr), [dest |-> dest, sender_only |-> sender_only])

\* self.keyword_rules[str(kw).lower()] = {"dest": dest, "field": match_field}
KeywordRuleAssign(rules, kw, dest, match_field) ==
    DictSet(rules, Lower(kw), [dest |-> dest, field |-> match_field])

\* The state of compilation: the two rule maps, whether an exception has
\* been raised (ok = FALSE: nothing after it runs), and how many sheet_map
\* entries were compiled to their end.
\* One entry of the email branch: for addr in addresses.
CompileEmailRow(st, info) ==
    IF info.sheet \notin DOMAIN Workbook \/ info.column = <<>>
       \/ info.column[1] \notin DOMAIN Workbook[info.sheet]
    THEN [st EXCEPT !.ok = FALSE]
    ELSE LET addresses == Unique(DropNa(Workbook[info.sheet][info.column[1]]))
             is_sender_only == (info.rule_name = ResearchEmail)
             F[k \in 0..Len(addresses)] ==
                 IF k = 0 THEN st.email_rules
                 ELSE EmailRuleAssign(F[k - 1], addresses[k],
                                      info.destination_name, is_sender_only)
         IN [st EXCEPT !.email_rules = F[Len(addresses)], !.compiled = @ + 1]

\* cols = info.get('columns', [info.get('column')])
ColumnsOf(info) ==
    IF info.columns # <<>>
    THEN [k \in 1..Len(info.columns[1]) |-> <<info.columns[1][k]>>]
    ELSE <<info.column>>

\* info.get('match_field', 'subject_only')
MatchFieldOf(info) ==
    IF info.match_field # <<>> THEN info.match_field[1] ELSE "subject_only"

\* One entry of the keyword branch: for col in cols: for kw in keywords.
\* A column the sheet lacks raises at df[col], after the columns before it
\* have been compiled.
CompileKeywordRow(st, info) ==
    IF info.sheet \notin DOMAIN Workbook THEN [st EXCEPT !.ok = FALSE]
    ELSE
    LET cols == ColumnsOf(info)
        df == Workbook[info.sheet]
        present(k) == cols[k] # <<>> /\ cols[k][1] \in DOMAIN df
        OneColumn(rules, col) ==
            LET keywords == Unique(DropNa(df[col]))
                G[j \in 0..Len(keywords)] ==
                    IF j = 0 THEN rules
                    ELSE KeywordRuleAssign(G[j - 1], keywords[j],
                                           info.destination_name, MatchFieldOf(info))
            IN G[Len(keywords)]
        F[k \in 0..Len(cols)] ==
            IF k = 0 THEN st
            ELSE IF ~F[k - 1].ok THEN F[k - 1]
            ELSE IF ~present(k) THEN [F[k - 1] EXCEPT !.ok = FALSE]
            ELSE [F[k - 1] EXCEPT !.keyword_rules = OneColumn(@, cols[k][1])]
        out == F[Len(cols)]
    IN IF out.ok THEN [out EXCEPT !.compiled = @ + 1] ELSE out

\* The loop over sheet_map.items(), inside the one try of load_data: the
\* first exception ends the loop.
CompileRows(rows) ==
    LET F[k \in 0..Len(rows)] ==
            IF k = 0
            THEN [email_rules |-> <<>>, keyword_rules |-> <<>>, ok |-> TRUE, compiled |-> 0]
            ELSE IF ~F[k - 1].ok THEN F[k - 1]
            ELSE IF IsEmailCategory(rows[k].rule_name)
                 THEN CompileEmailRow(F[k - 1], rows[k])
                 ELSE CompileKeywordRow(F[k - 1], rows[k])
    IN F[Len(rows)]

\* dict(zip(cache_df['ExchangeAddress'].str.lower(), cache_df['SMTPAddress']))
\* The sheet is absent or unreadable (sheet = <<>>): the except branch, {}.
LoadCache(sheet) ==
    IF sheet = <<>> THEN <<>>
    ELSE LET rows == sheet[1]
             F[k \in 0..Len(rows)] ==
                 IF k = 0 THEN <<>>
                 ELSE DictSet(F[k - 1], Lower(rows[k].ExchangeAddress), rows[k].SMTPAddress)
         IN F[Len(rows)]

\* load_data: the rule maps, the cache and the DataLoaderError record.
\* An exception in the rule loop skips the cache load, and smtp_cache keeps
\* the {} that __init__ gave it.
load_data(rows, sheet) ==
    LET st == CompileRows(rows)
    IN [email_rules |-> st.email_rules,
        keyword_rules |-> st.keyword_rules,
        smtp_cache |-> IF st.ok THEN LoadCache(sheet) ELSE <<>>,
        ok |-> st.ok,
        compiled |-> st.compiled]


\* ---------------------------------------------------------- the mail items
H1 == <<"/","O","=","H","1">>
H2 == <<"/","O","=","H","2">>

\* What the provider holds for an item: Class, Sender (None, or an address
\* entry with its AddressEntryUserType and Address), SenderEmailAddress
\* (None when unavailable), Subject and Body.
MailItem(class, sender, plain, subject, body) ==
    [Class |-> class, Sender |-> sender, SenderEmailAddress |-> plain,
     Subject |-> subject, Body |-> body]

AddressEntry(type, address) == <<[AddressEntryUserType |-> type, Address |-> address]>>

ItemKinds ==
    << \* 1: directory sender H1 (resolves to A@x), subject holds "inv" and
       \* body holds "pay"
       MailItem(MAIL_ITEM_CLASS, AddressEntry(ExchangeUserType, H1), <<H1>>,
                <<"I","N","V","1">>, <<"p","a","y">>),
       \* 2: SMTP sender b@y, keyword "pay" only in the body
       MailItem(MAIL_ITEM_CLASS, AddressEntry(30, bY), <<<<"B","@","y">>>>,
                <<"h","i">>, <<"P","a","y">>),
       \* 3: SMTP sender nobody lists, subject holds "nv" but not "inv"
       MailItem(MAIL_ITEM_CLASS, AddressEntry(30, cZ), <<cZ>>,
                <<"e","n","v">>, <<>>),
       \* 4: not a mail item (a meeting request)
       MailItem(53, AddressEntry(30, aX), <<aX>>, <<"i","n","v">>, <<>>),
       \* 5: no sender at all, "nv" in the body only
       MailItem(MAIL_ITEM_CLASS, <<>>, <<>>, <<"h","i">>, <<"N","v">>) >>

\* eu.PrimarySmtpAddress of the directory entry GetExchangeUser() returns
PrimarySmtpAddress(address) ==
    IF address = H1 THEN AX ELSE IF address = H2 THEN bY ELSE <<>>

\* ------------------------------------------------------- get_smtp_address
\* fault is the failure injected into this visit: "gx_none" makes
\* GetExchangeUser() return None, "gx_raise" makes it raise. The result is
\* the address returned (<<>> is None), the cache after the call, the
\* lowercased handle a directory request was issued for (if any), and
\* whether the injected failure was met.
get_smtp_address_no_store(item, cache, fault) ==
    IF item.Sender = <<>>
    THEN [smtp |-> <<>>, cache |-> cache, requested |-> <<>>, used |-> FALSE]
    ELSE LET sender_obj == item.Sender[1]
             ex_addr == Lower(sender_obj.Address)
         IN IF sender_obj.AddressEntryUserType # ExchangeUserType
            THEN [smtp |-> item.SenderEmailAddress, cache |-> cache,
                  requested |-> <<>>, used |-> FALSE]
            ELSE IF DictHas(cache, ex_addr)
            THEN [smtp |-> <<DictGet(cache, ex_addr)>>, cache |-> cache,
                  requested |-> <<>>, used |-> FALSE]
            ELSE [smtp |-> <<PrimarySmtpAddress(sender_obj.Address)>>, cache |-> cache,
                  requested |-> <<ex_addr>>, used |-> FALSE]

get_smtp_address(item, cache, fault) ==
    IF item.Sender = <<>>
    THEN \* item.Sender is None: AttributeError, caught by the bare except
         [smtp |-> <<>>, cache |-> cache, requested |-> <<>>, used |-> FALSE]
    ELSE LET sender_obj == item.Sender[1]
             ex_addr == Lower(sender_obj.Address)
         IN IF sender_obj.AddressEntryUserType # ExchangeUserType
            THEN [smtp |-> item.SenderEmailAddress, cache |-> cache,
                  requested |-> <<>>, used |-> FALSE]
            ELSE IF DictHas(cache, ex_addr)
            THEN [smtp |-> <<DictGet(cache, ex_addr)>>, cache |-> cache,
                  requested |-> <<>>, used |-> FALSE]
            ELSE IF fault = "gx_raise"
            THEN [smtp |-> <<>>, cache |-> cache,
                  requested |-> <<ex_addr>>, used |-> TRUE]
            ELSE IF fault = "gx_none"
            THEN [smtp |-> item.SenderEmailAddress, cache |-> cache,
                  requested |-> <<ex_addr>>, used |-> TRUE]
            ELSE LET smtp == PrimarySmtpAddress(sender_obj.Address)
                 IN [smtp |-> <<smtp>>, cache |-> DictSet(cache, ex_addr, smtp),
                     requested |-> <<ex_addr>>, used |-> FALSE]

\* ---------------------------------------------- process_email: the decision
\* The keyword rule at position k matches the (lowercased) subject and body.
KeywordHitAnyField(rule, subject, body) ==
    Contains(rule.key, subject) \/ Contains(rule.key, body)

KeywordHit(rule, subject, body) ==
    \/ rule.val.field = "subject_only" /\ Contains(rule.key, subject)
    \/ rule.val.field = "subject_and_body"
       /\ (Contains(rule.key, subject) \/ Contains(rule.key, body))

NoDecision(consulted) ==
    [fired |-> "none", dest |-> <<>>, trigger |-> <<>>, match_type |-> "none",
     consulted |-> consulted]

\* "2. Check Keyword Rules": the first rule in map order that matches;
\* consulted counts the rules the loop has looked at.
KeywordDecision(subject, body, keyword_rules) ==
    LET hits == {k \in 1..Len(keyword_rules) : KeywordHit(keyword_rules[k], subject, body)}
    IN IF hits = {} THEN NoDecision(Len(keyword_rules))
       ELSE LET k == CHOOSE h \in hits : \A g \in hits : h <= g
            IN [fired |-> "keyword", dest |-> keyword_rules[k].val.dest,
                trigger |-> keyword_rules[k].key, match_type |-> "KeywordMatch",
                consulted |-> k]

\* "1. Check Email Rules"
EmailRuleFiresUnlessSenderOnly(sender_email, email_rules) ==
    /\ DictHas(email_rules, sender_email)
    /\ ~DictGet(email_rules, sender_email).sender_only

EmailRuleFires(sender_email, email_rules) ==
    /\ DictHas(email_rules, sender_email)
    /\ (~DictGet(email_rules, sender_email).sender_only \/ sender_email # <<>>)

ClassifyKeywordFirst(subject, body, sender_email, email_rules, keyword_rules) ==
    LET kd == KeywordDecision(subject, body, keyword_rules)
    IN IF kd.fired = "keyword" THEN kd
       ELSE IF EmailRuleFires(sender_email, email_rules)
       THEN [fired |-> "email", dest |-> DictGet(email_rules, sender_email).dest,
             trigger |-> sender_email, match_type |-> "EmailMatch",
             consulted |-> kd.consulted]
       ELSE kd

\* The decision of process_email, from the rules and the fields read.
Classify(subject, body, sender_email, email_rules, keyword_rules) ==
    IF EmailRuleFires(sender_email, email_rules)
    THEN [fired |-> "email", dest |-> DictGet(email_rules, sender_email).dest,
          trigger |-> sender_email, match_type |-> "EmailMatch", consulted |-> 0]
    ELSE KeywordDecision(subject, body, keyword_rules)


\* --------------------------------------------------------- the mail store
\* The archive store is a function from folder paths (sequences of folder
\* names under the archive root, <<>> being the root) to the items of the
\* folder, in position order: position 1 is the head.
ArchiveRoot == <<>>
ArchiveName == <<"A","r","c","h">>

\* folder.Folders: the names of the child folders
ChildNames(store, path) ==
    {q[Len(q)] : q \in {r \in DOMAIN store : Len(r) = Len(path) + 1
                                             /\ SubSeq(r, 1, Len(path)) = path}}

\* folder.Name
FolderName(path) == IF path = <<>> THEN ArchiveName ELSE path[Len(path)]

RemoveAt(seq, k) == SubSeq(seq, 1, k - 1) \o SubSeq(seq, k + 1, Len(seq))

PositionOf(seq, id) == CHOOSE k \in 1..Len(seq) : seq[k] = id

\* --------------------------------------------------- get_folder_recursive
\* Walks the parts under the root; a part that Folders.Item does not find is
\* created with Folders.Add. fail_at = k > 0 makes both calls raise at the
\* k-th part (the folders created before it stay).
get_folder_recursive(store, parts, fail_at) ==
    LET F[k \in 0..Len(parts)] ==
            IF k = 0 THEN [ok |-> TRUE, node |-> ArchiveRoot, store |-> store]
            ELSE IF ~F[k - 1].ok THEN F[k - 1]
            ELSE IF k = fail_at THEN [F[k - 1] EXCEPT !.ok = FALSE]
            ELSE LET next == Append(F[k - 1].node, parts[k])
                 IN IF next \in DOMAIN F[k - 1].store
                    THEN [F[k - 1] EXCEPT !.node = next]
                    ELSE [F[k - 1] EXCEPT !.node = next,
                                          !.store = @ @@ (next :> <<>>)]
    IN F[Len(parts)]

\* --------------------------------------------------------- execute_action
\* item id sits in folder src of the store. fault: "folder1"/"folder2" make
\* the folder walk raise at that part, "prim" makes item.Delete()/item.Move()
\* raise, "log" makes the read of item.Subject for the log record raise (the
\* item is gone from under the reference by then).
LogRecord(rec, dest, trigger, match_type, subject) ==
    [rec |-> rec, dest |-> dest, trigger |-> trigger, match_type |-> match_type,
     subject |-> subject]

FailAtOf(fault) == IF fault = "folder1" THEN 1 ELSE IF fault = "folder2" THEN 2 ELSE 0

\* except Exception: ActionError|dest_name|e, return False
ActionFailed(st, removed, moved, used, dest_name) ==
    [ok |-> FALSE, store |-> st, removed |-> removed, moved |-> moved,
     bulk |-> <<>>, used |-> used,
     invalid |-> <<LogRecord("ActionError", dest_name, <<>>, "none", <<>>)>>]

\* the log record written, return True
ActionDone(st, removed, moved, record) ==
    [ok |-> TRUE, store |-> st, removed |-> removed, moved |-> moved,
     bulk |-> <<record>>, used |-> FALSE, invalid |-> <<>>]

\* item.Delete()
Delete(st, src, id) == [st EXCEPT ![src] = RemoveAt(@, PositionOf(@, id))]

\* item.Move(dest_folder): out of src, to the end of the destination
Move(st, src, id, dest_folder) ==
    [Delete(st, src, id) EXCEPT ![dest_folder] = Append(@, id)]

\* if dest_name == "ToDelete"
IsDeletion(dest_name) == dest_name = ToDelete

\* The delete branch (lines 180-182).
DeleteBranch(store, id, src, item, dest_name, trigger, match_type, fault) ==
    IF fault = "prim" THEN ActionFailed(store, FALSE, FALSE, TRUE, dest_name)
    ELSE IF fault = "log"
    THEN ActionFailed(Delete(store, src, id), TRUE, FALSE, TRUE, dest_name)
    ELSE ActionDone(Delete(store, src, id), TRUE, FALSE,
                    LogRecord("DELETED", <<>>, trigger, match_type, item.Subject))

\* The move branch (lines 184-187), walk being what get_folder_recursive
\* returned or how far it got before it raised.
MoveBranch(walk, id, src, item, dest_name, trigger, match_type, fault) ==
    IF ~walk.ok THEN ActionFailed(walk.store, FALSE, FALSE, TRUE, dest_name)
    ELSE IF fault = "prim" THEN ActionFailed(walk.store, FALSE, FALSE, TRUE, dest_name)
    ELSE IF fault = "log"
    THEN ActionFailed(Move(walk.store, src, id, walk.node), FALSE, TRUE, TRUE, dest_name)
    ELSE ActionDone(Move(walk.store, src, id, walk.node), FALSE, TRUE,
                    LogRecord("MOVED", dest_name, trigger, match_type, item.Subject))

execute_action_swapped(store, id, src, item, dest_name, trigger, match_type, fault) ==
    IF ~IsDeletion(dest_name)
    THEN DeleteBranch(store, id, src, item, dest_name, trigger, match_type, fault)
    ELSE MoveBranch(get_folder_recursive(store, Split(dest_name), FailAtOf(fault)),
                    id, src, item, dest_name, trigger, match_type, fault)

execute_action(store, id, src, item, dest_name, trigger, match_type, fault) ==
    IF IsDeletion(dest_name)
    THEN DeleteBranch(store, id, src, item, dest_name, trigger, match_type, fault)
    ELSE MoveBranch(get_folder_recursive(store, Split(dest_name), FailAtOf(fault)),
                    id, src, item, dest_name, trigger, match_type, fault)

\* -------------------------------------------------------- save_smtp_cache
\* The SMTP_Cache sheet written from the cache: one row per entry.
SheetOf(cache) ==
    <<[k \in 1..Len(cache) |->
          [ExchangeAddress |-> cache[k].key, SMTPAddress |-> cache[k].val]]>>

\* fault = "flush": the ExcelWriter raises; the sheet and the counter stay.
save_smtp_cache_no_reset(sheet, cache, since, fault) ==
    IF fault = "flush"
    THEN [sheet |-> sheet, since |-> since, ok |-> FALSE,
          invalid |-> <<LogRecord("CacheSaveError", <<>>, <<>>, "none", <<>>)>>]
    ELSE [sheet |-> SheetOf(cache), since |-> since, ok |-> TRUE, invalid |-> <<>>]

save_smtp_cache(sheet, cache, since, fault) ==
    IF fault = "flush"
    THEN [sheet |-> sheet, since |-> since, ok |-> FALSE,
          invalid |-> <<LogRecord("CacheSaveError", <<>>, <<>>, "none", <<>>)>>]
    ELSE [sheet |-> SheetOf(cache), since |-> 0, ok |-> TRUE, invalid |-> <<>>]

\* ------------------------------------------------------------------- state
VARIABLES
    \* configuration and workbook
    sheet_map,              \* config['sheet_map'], in order
    cache_sheet,            \* the SMTP_Cache sheet: <<>> absent/unreadable, else <<rows>>
    cache_save_interval,
    \* the archive store
    store,                  \* folder path -> item ids in position order
    items,                  \* item id -> what the provider holds for it
    deleted,                \* ids permanently removed
    \* the OnlineArchiveSorter instance
    email_rules, keyword_rules, smtp_cache,
    processed_count, items_since_last_save,
    \* the run: position in run_archive_processing and its locals
    pc, target_folder_path, target_folder, seg, i,
    \* the sinks
    bulk_log, invalid_log, diag,
    \* the process: the GUI window, the main thread, the invocations left
    gui, alive, runs_left,
    \* failures of external calls still to inject
    budget,
    \* history, for stating the properties
    loaded,                 \* what load_data did: ok, compiled
    orig,                   \* the folder's items when the loop started
    visits,                 \* the positions read by the loop of this run
    last,                   \* what the latest visit of the loop did
    requests,               \* handle -> outcomes of the directory requests
    run,                    \* this run: saves, actioned, flush failures
    co,                     \* CoInitialize / CoUninitialize calls
    snap                    \* the state when this run started

vars == <<sheet_map, cache_sheet, cache_save_interval, store, items, deleted,
          email_rules, keyword_rules, smtp_cache, processed_count,
          items_since_last_save, pc, target_folder_path, target_folder, seg, i,
          bulk_log, invalid_log, diag, gui, alive, runs_left, budget,
          loaded, orig, visits, last, requests, run, co, snap>>

config_vars == <<sheet_map, cache_save_interval, items>>
rule_vars == <<email_rules, keyword_rules>>

\* ------------------------------------------------------------------- inputs
Inbox == <<InboxName>>
Inbox1 == <<InboxName, <<"I","1">>>>
Inbox2 == <<InboxName, <<"I","2">>>>

\* The folder tree of the archive before the first run; the items to process
\* are in Inbox.
InitialStore(box) ==
    (ArchiveRoot :> <<>>) @@ (Inbox :> box) @@ (Inbox1 :> <<>>) @@ (Inbox2 :> <<>>)

\* The paths the front end can hand to run_archive_processing.
TargetPaths ==
    { ROOT, InboxName, <<"I","\\","I","1">>, <<"I","\\","X">>,
      <<"X","\\","I","1">> }

\* The display names outlook.Stores can hold when a run looks for the archive.
StoreLists == { <<<<"M","b","x">>>>, <<<<"M","b","x">>, ArchiveName>> }

Handles == {Lower(H1), Lower(H2)}

SeqsUpTo(S, n) == UNION {[1..k -> S] : k \in 0..n}

\* sheet_map is a dict: its rule names are distinct.
SheetMaps(n) ==
    {m \in SeqsUpTo(RowCatalogue, n) :
        \A j, k \in 1..Len(m) : j # k => m[j].rule_name # m[k].rule_name}

CacheSheets ==
    { <<>>,
      << <<[ExchangeAddress |-> H2, SMTPAddress |-> bY],
           [ExchangeAddress |-> H1, SMTPAddress |-> aX]>> >> }

NoVisit ==
    [pos |-> 0, id |-> 0, read |-> FALSE, mail |-> FALSE, classified |-> FALSE,
     sender |-> <<>>, requested |-> <<>>, decision |-> NoDecision(0),
     executed |-> FALSE, ok |-> FALSE, removed |-> FALSE, moved |-> FALSE,
     fault |-> "none", flushed |-> "no", folders_before |-> {},
     count_before |-> 0, since_before |-> 0]

NewRun == [saves |-> 0, actioned |-> 0, flush_failed |-> FALSE, entered |-> FALSE]

InitWith(maps, boxes, budgets, invocations) ==
    /\ sheet_map \in maps
    /\ cache_sheet \in CacheSheets
    /\ cache_save_interval \in 1..MaxInterval
    /\ \E box \in boxes :
          /\ items = [id \in 1..Len(box) |-> ItemKinds[box[id]]]
          /\ store = InitialStore([id \in 1..Len(box) |-> id])
    /\ deleted = {}
    /\ email_rules = <<>> /\ keyword_rules = <<>> /\ smtp_cache = <<>>
    /\ processed_count = 0 /\ items_since_last_save = 0
    /\ pc = "new" /\ target_folder_path = <<>> /\ target_folder = ArchiveRoot
    /\ seg = 0 /\ i = 0
    /\ bulk_log = <<>> /\ invalid_log = <<>> /\ diag = <<>>
    /\ gui = "closed" /\ alive = TRUE /\ runs_left = invocations
    /\ budget \in budgets
    /\ loaded = [ok |-> TRUE, compiled |-> 0]
    /\ orig = <<>> /\ visits = <<>> /\ last = NoVisit
    /\ requests = [h \in Handles |-> <<>>]
    /\ run = NewRun
    /\ co = [init |-> 0, uninit |-> 0]
    /\ snap = [store |-> store, deleted |-> deleted, smtp_cache |-> smtp_cache,
               cache_sheet |-> cache_sheet, processed_count |-> 0,
               items_since_last_save |-> 0]


\* ----------------------------------------------------------- process_email
\* What one call of process_email leaves behind.
Quiet(st, cache) ==
    [ok |-> FALSE, store |-> st, cache |-> cache, removed |-> FALSE,
     moved |-> FALSE, bulk |-> <<>>, invalid |-> <<>>, used |-> FALSE,
     requested |-> <<>>, sender |-> <<>>, classified |-> FALSE,
     decision |-> NoDecision(0), executed |-> FALSE]

\* (self.get_smtp_address(item) or "").lower()
SenderEmail(res) == Lower(IF res.smtp = <<>> THEN <<>> ELSE res.smtp[1])

\* The sender resolved (res) and the decision taken (d), no action yet.
Classified(st, res, d) ==
    [Quiet(st, res.cache) EXCEPT !.used = res.used, !.requested = res.requested,
                                 !.sender = res.smtp, !.classified = TRUE,
                                 !.decision = d]

\* return self.execute_action(...): a is what execute_action did.
Executed(seen, a) ==
    [seen EXCEPT !.ok = a.ok, !.store = a.store, !.removed = a.removed,
                 !.moved = a.moved, !.bulk = a.bulk, !.invalid = a.invalid,
                 !.used = @ \/ a.used, !.executed = TRUE]

\* Lines 154-171 once the decision d is known.
ActOn(st, id, src, item, res, d, fault) ==
    IF d.fired = "none" THEN Classified(st, res, d)
    ELSE Executed(Classified(st, res, d),
                  execute_action(st, id, src, item, d.dest, d.trigger,
                                 d.match_type, fault))

\* Lines 149-171 once the sender is resolved (res).
Decide(st, id, src, item, res, e_rules, k_rules, fault) ==
    ActOn(st, id, src, item, res,
          Classify(Lower(item.Subject), Lower(item.Body), SenderEmail(res),
                   e_rules, k_rules),
          fault)

\* One call of process_email on item id (held in folder src): the fields are
\* read (fault "fields": a read raises, ItemProcessError, False), the sender
\* is resolved, the rules are consulted and the action of the rule that fired
\* is executed; the result of execute_action is returned as it is.
process_email(st, id, src, item, cache, e_rules, k_rules, fault) ==
    IF fault = "fields"
    THEN [Quiet(st, cache) EXCEPT
             !.used = TRUE,
             !.invalid = <<LogRecord("ItemProcessError", <<>>, <<>>, "none", <<>>)>>]
    ELSE Decide(st, id, src, item, get_smtp_address(item, cache, fault),
                e_rules, k_rules, fault)

\* ------------------------------------------------- _process_folder_items
Faults == {"none", "read", "class", "fields", "gx_none", "gx_raise",
           "folder1", "folder2", "prim", "log", "flush"}

\* i -= 1, on the normal path (line 294) and in the handler (line 297)
NextIndexSkipAfterAction(index, acted) == IF acted THEN index - 2 ELSE index - 1

NextIndex(index, acted) == index - 1

\* if self.items_since_last_save >= self.cache_save_interval
IntervalReached(since, interval) == since >= interval

\* The visit of position i so far: nothing read yet.
Arrived(fault) ==
    [NoVisit EXCEPT !.pos = i, !.fault = fault, !.folders_before = DOMAIN store,
                    !.count_before = processed_count,
                    !.since_before = items_since_last_save,
                    !.id = IF i <= Len(store[target_folder])
                           THEN store[target_folder][i] ELSE 0]

\* A visit that changes nothing: the item could not be read, or is no mail.
Skipped(used, seen) ==
    [store |-> store, cache |-> smtp_cache, sheet |-> cache_sheet,
     count |-> processed_count, since |-> items_since_last_save,
     bulk |-> <<>>, invalid |-> <<>>, used |-> used, requested |-> <<>>,
     last |-> seen]

\* Lines 279-282 and 291-293: p is what process_email did, sv what
\* save_smtp_cache would do with the counter incremented.
Counted(seen, p, sv, fault) ==
    IF ~p.ok
    THEN [store |-> p.store, cache |-> p.cache, sheet |-> cache_sheet,
          count |-> processed_count, since |-> items_since_last_save,
          bulk |-> p.bulk, invalid |-> p.invalid, used |-> p.used,
          requested |-> p.requested, last |-> seen]
    ELSE IF ~IntervalReached(items_since_last_save + 1, cache_save_interval)
    THEN [store |-> p.store, cache |-> p.cache, sheet |-> cache_sheet,
          count |-> processed_count + 1, since |-> items_since_last_save + 1,
          bulk |-> p.bulk, invalid |-> p.invalid, used |-> p.used,
          requested |-> p.requested, last |-> seen]
    ELSE [store |-> p.store, cache |-> p.cache, sheet |-> sv.sheet,
          count |-> processed_count + 1, since |-> sv.since,
          bulk |-> p.bulk, invalid |-> p.invalid \o sv.invalid,
          used |-> p.used \/ fault = "flush",
          requested |-> p.requested,
          last |-> [seen EXCEPT !.flushed = IF sv.ok THEN "ok" ELSE "failed"]]

\* The visit with what process_email did (p) written into its record.
MailVisited(seen, p, fault) ==
    Counted([seen EXCEPT !.read = TRUE, !.mail = TRUE,
                         !.classified = p.classified, !.sender = p.sender,
                         !.requested = p.requested, !.decision = p.decision,
                         !.executed = p.executed, !.ok = p.ok,
                         !.removed = p.removed, !.moved = p.moved],
            p,
            save_smtp_cache(cache_sheet, p.cache, items_since_last_save + 1, fault),
            fault)

\* if item.Class == self.MAIL_ITEM_CLASS
IsMailAnyClass(item) == TRUE

IsMail(item) == item.Class = MAIL_ITEM_CLASS

\* One pass through the body of the while loop at position i, with the
\* failure fault injected: what it leaves behind.
Visit(fault) ==
    IF i > Len(store[target_folder])
    THEN Skipped(FALSE, Arrived(fault))               \* items.Item(i) raises
    ELSE IF fault = "read" THEN Skipped(TRUE, Arrived(fault))
    ELSE IF fault = "class"
    THEN Skipped(TRUE, [Arrived(fault) EXCEPT !.read = TRUE])
    ELSE IF ~IsMail(items[store[target_folder][i]])
    THEN Skipped(FALSE, [Arrived(fault) EXCEPT !.read = TRUE])
    ELSE MailVisited(Arrived(fault),
                     process_email(store, store[target_folder][i], target_folder,
                                   items[store[target_folder][i]], smtp_cache,
                                   email_rules, keyword_rules, fault),
                     fault)

RequestOutcome(fault) ==
    IF fault = "gx_raise" THEN "raise" ELSE IF fault = "gx_none" THEN "none" ELSE "user"

\* Where the loop stands after a visit: the handler of line 295 ends with
\* continue, so whether the visit raised makes no difference.
AfterVisitBreakOnError(index, raised) ==
    IF raised \/ index <= 0 THEN "saving" ELSE "processing"

AfterVisit(index, raised) == IF index > 0 THEN "processing" ELSE "saving"

\* The state after the visit v.
Commit(v, fault) ==
    /\ fault = "none" \/ (v.used /\ budget > 0)
    /\ budget' = IF fault = "none" THEN budget ELSE budget - 1
    /\ store' = v.store
    /\ deleted' = IF v.last.removed THEN deleted \cup {v.last.id} ELSE deleted
    /\ smtp_cache' = v.cache
    /\ cache_sheet' = v.sheet
    /\ processed_count' = v.count
    /\ items_since_last_save' = v.since
    /\ bulk_log' = bulk_log \o v.bulk
    /\ invalid_log' = invalid_log \o v.invalid
    /\ last' = v.last
    /\ visits' = Append(visits, [pos |-> i, id |-> v.last.id, fault |-> fault])
    /\ requests' = IF v.requested = <<>> THEN requests
                   ELSE [requests EXCEPT ![v.requested[1]] =
                             Append(@, RequestOutcome(fault))]
    /\ run' = [run EXCEPT !.saves = IF v.last.flushed = "no" THEN @ ELSE @ + 1,
                          !.actioned = IF v.last.ok THEN @ + 1 ELSE @,
                          !.flush_failed = @ \/ v.last.flushed = "failed"]
    /\ i' = NextIndex(i, v.last.removed \/ v.last.moved)
    /\ pc' = AfterVisit(i', ~v.last.read \/ fault = "class")

ProcessItem ==
    /\ alive /\ pc = "processing" /\ i > 0
    /\ \E fault \in Faults : Commit(Visit(fault), fault)
    /\ UNCHANGED <<config_vars, rule_vars, target_folder_path, target_folder, seg,
                   diag, gui, alive, runs_left, loaded, orig, co, snap>>

\* ---------------------------------------------------------------- __init__
\* The constructor: empty maps and zero counters, then load_data; start_gui
\* then opens the selection window.
Construct ==
    /\ alive /\ pc = "new"
    /\ LET d == load_data(sheet_map, cache_sheet)
       IN /\ email_rules' = d.email_rules
          /\ keyword_rules' = d.keyword_rules
          /\ smtp_cache' = d.smtp_cache
          /\ loaded' = [ok |-> d.ok, compiled |-> d.compiled]
          /\ invalid_log' = IF d.ok THEN invalid_log
                            ELSE Append(invalid_log,
                                        LogRecord("DataLoaderError", <<>>, <<>>, "none", <<>>))
    /\ processed_count' = 0 /\ items_since_last_save' = 0
    /\ pc' = "idle" /\ gui' = "open"
    /\ UNCHANGED <<config_vars, cache_sheet, store, deleted, target_folder_path,
                   target_folder, seg, i, bulk_log, diag, alive, runs_left, budget,
                   orig, visits, last, requests, run, co, snap>>

\* -------------------------------------------------- run_archive_processing
RunEnded == pc \in {"done", "failed", "error"}

\* The parts of the path to walk: none for the literal ROOT.
PathParts(path) == IF path = ROOT THEN <<>> ELSE Split(path)

\* An invocation begins: from start_task (which destroys the window and
\* starts the worker thread) the first time, from a caller holding the same
\* instance afterwards. The first statement is CoInitialize().
StartRun ==
    /\ alive /\ runs_left > 0
    /\ (pc = "idle" /\ gui = "open") \/ RunEnded
    /\ \E path \in TargetPaths : target_folder_path' = path
    /\ gui' = "destroyed"
    /\ runs_left' = runs_left - 1
    /\ co' = [co EXCEPT !.init = @ + 1]
    /\ pc' = "resolvingArchive"
    /\ target_folder' = ArchiveRoot /\ seg' = 0 /\ i' = 0
    /\ diag' = <<>> /\ orig' = <<>> /\ visits' = <<>> /\ run' = NewRun
    /\ snap' = [store |-> store, deleted |-> deleted, smtp_cache |-> smtp_cache,
                cache_sheet |-> cache_sheet, processed_count |-> processed_count,
                items_since_last_save |-> items_since_last_save]
    /\ UNCHANGED <<config_vars, rule_vars, cache_sheet, store, deleted, smtp_cache,
                   processed_count, items_since_last_save, bulk_log, invalid_log,
                   alive, budget, loaded, last, requests>>

\* finally: pythoncom.CoUninitialize()
FinallyOnlyWhenDone(state) ==
    /\ pc' = state
    /\ co' = IF state = "done" THEN [co EXCEPT !.uninit = @ + 1] ELSE co

Finally(state) ==
    /\ pc' = state
    /\ co' = [co EXCEPT !.uninit = @ + 1]

\* Lines 196-210: connect, then look for the store whose DisplayName is the
\* archive name. fault "connect": Dispatch/GetNamespace raises, which the
\* outer except logs as GlobalRunError.
ResolveArchive ==
    /\ alive /\ pc = "resolvingArchive"
    /\ \E names \in StoreLists, fault \in {"none", "connect"} :
          /\ fault = "none" \/ budget > 0
          /\ budget' = IF fault = "none" THEN budget ELSE budget - 1
          /\ IF fault = "connect"
             THEN /\ Finally("error")
                  /\ invalid_log' = Append(invalid_log,
                         LogRecord("GlobalRunError", <<>>, <<>>, "none", <<>>))
                  /\ UNCHANGED <<diag, seg>>
             ELSE IF \E k \in 1..Len(names) : names[k] = ArchiveName
             THEN /\ pc' = "resolvingTarget" /\ seg' = 1
                  /\ UNCHANGED <<co, diag, invalid_log>>
             ELSE /\ Finally("failed")
                  /\ diag' = <<[kind |-> "archive", part |-> <<>>, parent |-> <<>>,
                                available |-> {}, path |-> target_folder_path]>>
                  /\ UNCHANGED <<seg, invalid_log>>
    /\ UNCHANGED <<config_vars, rule_vars, cache_sheet, store, deleted, smtp_cache,
                   processed_count, items_since_last_save, target_folder_path,
                   target_folder, i, bulk_log, gui, alive, runs_left, loaded, orig,
                   visits, last, requests, run, snap>>

\* The folders the "Folder Not Found" message lists: target_folder.Folders
AvailableFoldersOfRoot(st, folder) == ChildNames(st, ArchiveRoot)

AvailableFolders(st, folder) == ChildNames(st, folder)

\* The except branch of the walk (lines 229-239): the message box, return.
SegmentMissingThenSave(part) ==
    /\ Finally("failed")
    /\ diag' = <<[kind |-> "folder", part |-> part,
                  parent |-> FolderName(target_folder),
                  available |-> AvailableFolders(store, target_folder),
                  path |-> target_folder_path]>>
    /\ cache_sheet' = SheetOf(smtp_cache)
    /\ UNCHANGED <<target_folder, seg>>

SegmentMissing(part) ==
    /\ Finally("failed")
    /\ diag' = <<[kind |-> "folder", part |-> part,
                  parent |-> FolderName(target_folder),
                  available |-> AvailableFolders(store, target_folder),
                  path |-> target_folder_path]>>
    /\ UNCHANGED <<target_folder, seg, cache_sheet>>

\* One pass of the loop over the parts of the target path (lines 216-239).
ResolveSegment ==
    /\ alive /\ pc = "resolvingTarget"
    /\ seg <= Len(PathParts(target_folder_path))
    /\ LET part == PathParts(target_folder_path)[seg]
           next == Append(target_folder, part)
       IN IF next \in DOMAIN store
          THEN /\ target_folder' = next /\ seg' = seg + 1
               /\ UNCHANGED <<pc, co, diag, cache_sheet>>
          ELSE SegmentMissing(part)
    /\ UNCHANGED <<config_vars, rule_vars, store, deleted, smtp_cache,
                   processed_count, items_since_last_save, target_folder_path, i,
                   bulk_log, invalid_log, gui, alive, runs_left, budget, loaded, orig,
                   visits, last, requests, run, snap>>

\* Lines 241-274: the STARTING record, then items = folder.Items and
\* i = items.Count. fault "items": reading the collection raises, which the
\* try of _process_folder_items logs as FolderProcessingError.
EnterProcessing ==
    /\ alive /\ pc = "resolvingTarget"
    /\ seg > Len(PathParts(target_folder_path))
    /\ \E fault \in {"none", "items"} :
          /\ fault = "none" \/ budget > 0
          /\ budget' = IF fault = "none" THEN budget ELSE budget - 1
          /\ bulk_log' = Append(bulk_log,
                 LogRecord("STARTING", target_folder_path, <<>>, "none", <<>>))
          /\ IF fault = "items"
             THEN /\ pc' = "saving"
                  /\ invalid_log' = Append(invalid_log,
                         LogRecord("FolderProcessingError", <<>>, <<>>, "none", <<>>))
                  /\ UNCHANGED <<i, orig, run>>
             ELSE /\ i' = Len(store[target_folder])
                  /\ orig' = store[target_folder]
                  /\ run' = [run EXCEPT !.entered = TRUE]
                  /\ pc' = IF i' > 0 THEN "processing" ELSE "saving"
                  /\ UNCHANGED invalid_log
    /\ UNCHANGED <<config_vars, rule_vars, cache_sheet, store, deleted, smtp_cache,
                   processed_count, items_since_last_save, target_folder_path,
                   target_folder, seg, diag, gui, alive, runs_left, loaded, visits,
                   last, requests, co, snap>>

\* Lines 248-254 and the finally: the final save, the report, CoUninitialize.
FinalSave ==
    /\ alive /\ pc = "saving"
    /\ \E fault \in {"none", "flush"} :
          LET sv == save_smtp_cache(cache_sheet, smtp_cache, items_since_last_save, fault)
          IN /\ fault = "none" \/ budget > 0
             /\ budget' = IF fault = "none" THEN budget ELSE budget - 1
             /\ cache_sheet' = sv.sheet
             /\ items_since_last_save' = sv.since
             /\ invalid_log' = invalid_log \o sv.invalid
             /\ run' = [run EXCEPT !.saves = @ + 1,
                                   !.flush_failed = @ \/ ~sv.ok]
    /\ Finally("done")
    /\ UNCHANGED <<config_vars, rule_vars, store, deleted, smtp_cache,
                   processed_count, target_folder_path, target_folder, seg, i,
                   bulk_log, diag, gui, alive, runs_left, loaded, orig, visits, last,
                   requests, snap>>

\* ------------------------------------------------------------- the process
\* root.destroy() ends root.mainloop(); start_gui returns and the main thread
\* ends. The worker is a daemon thread: the interpreter exits without it.
MainExit ==
    /\ alive /\ gui = "destroyed"
    /\ alive' = FALSE
    /\ UNCHANGED <<config_vars, rule_vars, cache_sheet, store, deleted, smtp_cache,
                   processed_count, items_since_last_save, pc, target_folder_path,
                   target_folder, seg, i, bulk_log, invalid_log, diag, gui, runs_left,
                   budget, loaded, orig, visits, last, requests, run, co, snap>>

Next ==
    \/ Construct
    \/ StartRun
    \/ ResolveArchive
    \/ ResolveSegment
    \/ EnterProcessing
    \/ ProcessItem
    \/ FinalSave
    \/ MainExit

\* Mailboxes: every sequence of item kinds up to MaxItems.
AllBoxes == SeqsUpTo(1..Len(ItemKinds), MaxItems)

\* The rule sets the runs are checked with.
RunMaps ==
    {m \in SheetMaps(2) : Len(m) = 2
        /\ m[1].rule_name \in {<<"D","e","l">> \o EmailWord, ResearchEmail}
        /\ m[2].rule_name \in {<<"P">> \o KeywordWord, EmailWord \o KeywordWord}}

Init == InitWith(RunMaps, AllBoxes, {MaxFaults}, Invocations)

Spec == Init /\ [][Next]_vars

\* Every configuration up to MaxRows entries, with one mailbox.
InitLoad == InitWith(SheetMaps(MaxRows), {<<1, 2, 3>>}, {0}, Invocations)

SpecLoad == InitLoad /\ [][Next]_vars

\* A caller that keeps the instance and invokes run_archive_processing up to
\* MaxRuns times, on mailboxes of up to two items, no call failing.
InitRuns == InitWith(RunMaps, SeqsUpTo(1..Len(ItemKinds), 2), {0}, MaxRuns)

SpecRuns == InitRuns /\ [][Next]_vars


\* ================================================================== claims
ItemsOf(st) == UNION {Range(st[f]) : f \in DOMAIN st}

Prefixes(parts) == {SubSeq(parts, 1, k) : k \in 0..Len(parts)}

\* C1: in Processing, for a folder holding N items when the loop starts, the
\* positions read are N, N-1, ..., 1 in that order, each once, whatever the
\* visits delete or move; the item found at a position is the one that was
\* there when the loop started, so after a deletion at p the next read is
\* p-1 and no original item is skipped or read twice.
C1_DescendingPositions ==
    run.entered =>
        /\ \A k \in 1..Len(visits) :
              /\ visits[k].pos = Len(orig) - k + 1
              /\ visits[k].id = orig[Len(orig) - k + 1]
        /\ Len(visits) <= Len(orig)
        /\ pc = "processing" => (i = Len(orig) - Len(visits) /\ i > 0)
        /\ pc \in {"saving", "done"} => Len(visits) = Len(orig)

\* C1 witness: a folder of three items whose middle item was deleted, and
\* whose first position was still read after it.
C1_Witness ==
    /\ pc = "done" /\ Len(orig) = 3 /\ Len(visits) = 3
    /\ visits[2].id \in deleted
    /\ visits[3].pos = 1

\* C2: once a sender rule has fired no keyword rule is consulted; the
\* decision's destination and trigger are the sender rule's and the match
\* type is EmailMatch, whether or not a keyword rule matches too and whether
\* or not the action then succeeds.
C2_SenderBeforeKeyword ==
    LET s == Lower(IF last.sender = <<>> THEN <<>> ELSE last.sender[1])
        fires == \E k \in 1..Len(email_rules) :
                    /\ email_rules[k].key = s
                    /\ (~email_rules[k].val.sender_only \/ s # <<>>)
    IN (last.classified /\ fires) =>
          /\ last.decision.fired = "email"
          /\ last.decision.consulted = 0
          /\ last.decision.match_type = "EmailMatch"
          /\ last.decision.trigger = s
          /\ \E k \in 1..Len(email_rules) :
                email_rules[k].key = s /\ email_rules[k].val.dest = last.decision.dest
          /\ last.executed
          /\ last.ok => /\ bulk_log[Len(bulk_log)].trigger = s
                        /\ bulk_log[Len(bulk_log)].match_type = "EmailMatch"

\* C2 witness: a sender rule fired for a message whose subject also matches
\* a keyword rule, and the action then failed.
C2_Witness ==
    /\ last.classified /\ last.decision.fired = "email"
    /\ \E k \in 1..Len(keyword_rules) :
          KeywordHit(keyword_rules[k], Lower(items[last.id].Subject),
                     Lower(items[last.id].Body))
    /\ last.executed /\ ~last.ok

\* C3 as stated: a message is removed if and only if the rule that fired has
\* destination "ToDelete"; for every other fired destination it is relocated
\* into the folder at that path and not deleted; with no rule fired it is
\* neither removed nor relocated.
C3_Original ==
    last.classified =>
        LET d == last.decision
        IN /\ last.removed <=> (d.fired # "none" /\ d.dest = ToDelete)
           /\ (d.fired # "none" /\ d.dest # ToDelete) =>
                 /\ last.moved /\ ~last.removed
                 /\ Split(d.dest) \in DOMAIN store
                 /\ last.id \in Range(store[Split(d.dest)])
           /\ d.fired = "none" => (~last.removed /\ ~last.moved)

\* C3 amended: a message is removed only if the rule that fired has
\* destination exactly "ToDelete", and is removed whenever such a rule fired
\* and item.Delete() did not raise; for every other fired destination the
\* message is never deleted, and unless the folder walk or item.Move() raises
\* it is relocated into the folder at that backslash-delimited path, the
\* missing segments created and the existing ones reused; a message for which
\* no rule fired is neither removed nor relocated.
C3_RemovedOnlyByToDelete ==
    last.mail =>
        LET d == last.decision
            primitive_failed == last.fault \in {"prim", "folder1", "folder2"}
        IN /\ last.removed =>
                 /\ d.fired # "none" /\ d.dest = ToDelete /\ ~last.moved
                 /\ last.id \in deleted /\ last.id \notin ItemsOf(store)
                 /\ DOMAIN store = last.folders_before
           /\ last.moved =>
                 /\ d.fired # "none" /\ d.dest # ToDelete /\ ~last.removed
                 /\ last.id \notin deleted
                 /\ Split(d.dest) \in DOMAIN store
                 /\ last.id \in Range(store[Split(d.dest)])
                 /\ Cardinality({f \in DOMAIN store : last.id \in Range(store[f])}) = 1
                 /\ DOMAIN store = last.folders_before \cup (Prefixes(Split(d.dest)))
           /\ (d.fired # "none" /\ d.dest # ToDelete) => last.id \notin deleted
           /\ d.fired = "none" =>
                 /\ ~last.removed /\ ~last.moved
                 /\ DOMAIN store = last.folders_before
           /\ (last.executed /\ ~primitive_failed) =>
                 IF d.dest = ToDelete THEN last.removed ELSE last.moved

\* C3 witness: a message relocated into Promo\Weekly, both folders created
\* by the move, in a run that has also removed a message.
C3_Witness ==
    /\ last.moved /\ last.decision.dest = PromoWeekly
    /\ <<<<"P">>>> \notin last.folders_before
    /\ last.id \in Range(store[<<<<"P">>, <<"W">>>>])
    /\ deleted # {}

\* C4 as stated: for one sender handle at most one directory request is
\* issued in total, whatever the first request returned.
C4_Original == \A h \in Handles : Len(requests[h]) <= 1

\* C4 amended: for one sender handle, once a directory request has returned
\* a value no further request is issued for that handle (the value is in the
\* cache); a request that returned nothing or raised leaves the handle
\* uncached, and the next resolve of that handle asks again. A handle the
\* loaded cache holds is never requested.
C4_AtMostOneAnsweredRequest ==
    \A h \in Handles :
        /\ \A k \in 1..Len(requests[h]) :
              requests[h][k] = "user" =>
                  /\ k = Len(requests[h])
                  /\ \E c \in 1..Len(smtp_cache) : smtp_cache[c].key = h
        /\ (\E c \in 1..Len(snap.smtp_cache) : snap.smtp_cache[c].key = h) =>
              requests[h] = <<>>

\* C4 witness: a run over two messages of the same directory sender, no call
\* failing, ended with one request for the handle.
C4_Witness ==
    /\ pc = "done" /\ budget = MaxFaults /\ Len(orig) >= 2
    /\ items[orig[1]] = ItemKinds[1] /\ items[orig[2]] = ItemKinds[1]
    /\ requests[Lower(H1)] = <<"user">>

\* C5 as stated: whenever the sender is not a directory entry, or the
\* directory request returns nothing or raises, resolve returns the message's
\* plain sender-address field.
C5_FallsBackToPlainField ==
    last.classified =>
        LET item == items[last.id]
            directory == item.Sender # <<>>
                         /\ item.Sender[1].AddressEntryUserType = ExchangeUserType
            request_failed == last.requested # <<>>
                              /\ last.fault \in {"gx_none", "gx_raise"}
        IN (~directory \/ request_failed) => last.sender = item.SenderEmailAddress

\* C6: in a run with save interval k in which N items have been actioned
\* successfully and every flush has succeeded, the cache has been persisted
\* N div k times while in Processing, the counter being N mod k (0 right
\* after a flush), and once more in Saving: N div k + 1 calls when the run
\* is done, the counter then being 0.
C6_PersistenceCount ==
    LET k == cache_save_interval
        N == run.actioned
    IN ~run.flush_failed =>
          /\ pc \in {"processing", "saving"} =>
                /\ run.saves = N \div k
                /\ items_since_last_save = N % k
                /\ processed_count = N
          /\ (pc = "processing" /\ last.flushed = "ok") => items_since_last_save = 0
          /\ pc = "done" =>
                /\ run.saves = (N \div k) + 1
                /\ items_since_last_save = 0
          /\ pc \in {"failed", "error"} => run.saves = 0

\* C6 witness: interval 2, three items actioned, two persistence calls.
C6_Witness ==
    /\ pc = "done" /\ ~run.flush_failed
    /\ cache_save_interval = 2 /\ run.actioned = 3 /\ run.saves = 2

\* C7: when a run has ended in Failed (archive store not found, or a segment
\* of the target path missing) nothing is changed: no item has been read,
\* removed or relocated, no folder created, the cache neither flushed nor
\* changed, and the two counters are what they were when the run started.
C7_FailedLeavesStateUntouched ==
    pc = "failed" =>
        /\ store = snap.store
        /\ deleted = snap.deleted
        /\ smtp_cache = snap.smtp_cache
        /\ cache_sheet = snap.cache_sheet
        /\ processed_count = snap.processed_count
        /\ items_since_last_save = snap.items_since_last_save
        /\ visits = <<>> /\ ~run.entered
        /\ run.saves = 0 /\ run.actioned = 0
        /\ bulk_log = <<>>

\* C7 witness: a run failed on a missing segment, over a folder that holds
\* items and with a cache that holds entries.
C7_Witness ==
    /\ pc = "failed" /\ diag # <<>> /\ diag[1].kind = "folder"
    /\ Len(store[Inbox]) = MaxItems /\ smtp_cache # <<>>

\* C8: for a target path whose segments s1..s(j-1) exist and whose sj is not
\* a child of the folder reached, the run never reaches Processing; it fails
\* at depth j, and the diagnostic names sj, the folder reached at depth j-1
\* and exactly the names of that folder's children.
C8_MissingSegmentDiagnostic ==
    LET parts == PathParts(target_folder_path)
        missing == {j \in 1..Len(parts) : SubSeq(parts, 1, j) \notin DOMAIN snap.store}
        folder_failed == pc = "failed" /\ diag # <<>> /\ diag[1].kind = "folder"
    IN /\ folder_failed => missing # {}
       /\ (pc \notin {"new", "idle"} /\ missing # {}) =>
             LET j == CHOOSE m \in missing : \A n \in missing : m <= n
                 parent == SubSeq(parts, 1, j - 1)
             IN /\ pc \in {"resolvingArchive", "resolvingTarget", "failed", "error"}
                /\ pc = "resolvingTarget" => (seg <= j /\ target_folder = SubSeq(parts, 1, seg - 1))
                /\ folder_failed =>
                      /\ seg = j
                      /\ diag[1].part = parts[j]
                      /\ diag[1].parent = (IF j = 1 THEN ArchiveName ELSE parts[j - 1])
                      /\ diag[1].available =
                            {q[Len(q)] : q \in {r \in DOMAIN snap.store :
                                Len(r) = j /\ SubSeq(r, 1, j - 1) = parent}}
                      /\ diag[1].path = target_folder_path

\* C8 witness: the path Inbox\X failed at depth 2, the diagnostic listing
\* the two children of Inbox.
C8_Witness ==
    /\ pc = "failed" /\ diag # <<>> /\ diag[1].kind = "folder"
    /\ diag[1].part = <<"X">> /\ diag[1].parent = InboxName
    /\ diag[1].available = {<<"I", "1">>, <<"I", "2">>}

\* The lowercased non-empty cells of a column of a rule's sheet.
CellKeys(info, col) ==
    {Lower(c) : c \in Range(Workbook[info.sheet][col]) \ {NaN}}

\* The declared columns of a rule that its sheet holds, up to the first one
\* it lacks.
ReadableColumns(info) ==
    LET cols == IF IsEmailCategory(info.rule_name) THEN <<info.column>>
                ELSE ColumnsOf(info)
        held(k) == cols[k] # <<>> /\ cols[k][1] \in DOMAIN Workbook[info.sheet]
    IN {cols[k][1] : k \in {n \in 1..Len(cols) : \A j \in 1..n : held(j)}}

\* Every declared column of the rule is in its sheet.
WellFormed(info) ==
    LET cols == IF IsEmailCategory(info.rule_name) THEN <<info.column>>
                ELSE ColumnsOf(info)
    IN \A k \in 1..Len(cols) : cols[k] # <<>> /\ cols[k][1] \in DOMAIN Workbook[info.sheet]

AllKeys ==
    UNION {UNION {{Lower(c) : c \in Range(Workbook[sh][col]) \ {NaN}} :
                     col \in DOMAIN Workbook[sh]} : sh \in DOMAIN Workbook}

\* C9: for the rows compiled in order and every key several rows of one kind
\* share, the compiled map of that kind holds exactly one entry for the key,
\* whose destination (and senderOnly flag, or scope) is that of the last row
\* in compilation order that carries the key; a key no compiled row of the
\* kind carries has no entry.
C9_LastWriteWins ==
    pc # "new" =>
        LET reached == 1..(IF loaded.ok THEN Len(sheet_map) ELSE loaded.compiled + 1)
            carriers(key, email) ==
                {r \in reached :
                    /\ IsEmailCategory(sheet_map[r].rule_name) = email
                    /\ \E col \in ReadableColumns(sheet_map[r]) :
                          key \in CellKeys(sheet_map[r], col)}
            latest(S) == sheet_map[CHOOSE r \in S : \A q \in S : q <= r]
        IN \A key \in AllKeys :
              /\ LET c == carriers(key, TRUE)
                     e == {k \in 1..Len(email_rules) : email_rules[k].key = key}
                 IN IF c = {} THEN e = {}
                    ELSE /\ Cardinality(e) = 1
                         /\ \A k \in e :
                               /\ email_rules[k].val.dest = latest(c).destination_name
                               /\ email_rules[k].val.sender_only
                                     = (latest(c).rule_name = ResearchEmail)
              /\ LET c == carriers(key, FALSE)
                     e == {k \in 1..Len(keyword_rules) : keyword_rules[k].key = key}
                 IN IF c = {} THEN e = {}
                    ELSE /\ Cardinality(e) = 1
                         /\ \A k \in e :
                               /\ keyword_rules[k].val.dest = latest(c).destination_name
                               /\ keyword_rules[k].val.field = MatchFieldOf(latest(c))

\* C9 witness: two sender categories list a@x, the first sending it to
\* ToDelete and the second to R; the map holds the second.
C9_Witness ==
    /\ pc = "idle" /\ Len(sheet_map) = 2
    /\ sheet_map[1].destination_name = ToDelete
    /\ sheet_map[2].rule_name = ResearchEmail
    /\ aX \in CellKeys(sheet_map[1], "Addr")
    /\ Len(email_rules) = 2
    /\ email_rules[1] = [key |-> aX, val |-> [dest |-> <<"R">>, sender_only |-> TRUE]]

\* C10 as stated: when the table of one category lacks its declared column
\* the failure is logged, every well-formed category later in the order is
\* still compiled into the maps, and the persisted cache is still loaded.
C10_FailSoftPerCategory ==
    (pc # "new" /\ \E r \in 1..Len(sheet_map) : ~WellFormed(sheet_map[r])) =>
        /\ \E k \in 1..Len(invalid_log) : invalid_log[k].rec = "DataLoaderError"
        /\ \A r \in 1..Len(sheet_map) :
              WellFormed(sheet_map[r]) =>
                  \A col \in ReadableColumns(sheet_map[r]) :
                      \A key \in CellKeys(sheet_map[r], col) :
                          IF IsEmailCategory(sheet_map[r].rule_name)
                          THEN \E k \in 1..Len(email_rules) : email_rules[k].key = key
                          ELSE \E k \in 1..Len(keyword_rules) : keyword_rules[k].key = key
        /\ (pc = "idle" /\ cache_sheet # <<>>) =>
              \A n \in 1..Len(cache_sheet[1]) :
                  \E c \in 1..Len(smtp_cache) :
                      smtp_cache[c].key = Lower(cache_sheet[1][n].ExchangeAddress)

\* C11 as stated: whenever execute_action returned False for a message
\* (the folder walk, the move/delete primitive or the log record failed) the
\* message is neither removed nor relocated, is still in the folder being
\* processed, and neither counter was incremented for it; and a message that
\* has been removed or relocated is one for which it returned True.
C11_FalseMeansUnprocessed ==
    last.executed =>
        /\ ~last.ok =>
              /\ ~last.removed /\ ~last.moved
              /\ last.id \in Range(store[target_folder])
              /\ last.id \notin deleted
              /\ processed_count = last.count_before
              /\ last.flushed = "no"
              /\ pc \in {"processing", "saving"} =>
                    items_since_last_save = last.since_before
        /\ (last.removed \/ last.moved) => last.ok

\* C12: a failure at a position (reading the item, reading its class,
\* classifying it or acting on it) never ends the loop: the next position
\* read is the next lower one, every position down to 1 is visited, the run
\* does not end in Failed or with a run-level error because of it, and the
\* final save is performed.
C12_BadItemNeverAborts ==
    LET ItemFaults == {"read", "class", "fields", "gx_none", "gx_raise",
                       "folder1", "folder2", "prim", "log"}
    IN run.entered =>
          /\ pc \in {"processing", "saving", "done"}
          /\ (pc = "processing" /\ visits # <<>>) =>
                (i = visits[Len(visits)].pos - 1 /\ i >= 1)
          /\ (pc = "processing" /\ visits = <<>>) => i = Len(orig)
          /\ pc \in {"saving", "done"} =>
                {visits[k].pos : k \in 1..Len(visits)} = 1..Len(orig)
          /\ pc = "done" => run.saves >= 1
          /\ \A k \in 1..Len(invalid_log) :
                invalid_log[k].rec \notin {"GlobalRunError", "FolderProcessingError"}

\* C12 witness: reading the item at position 3 failed, positions 2 and 1
\* were visited after it and the run ended with its final save.
C12_Witness ==
    /\ pc = "done" /\ Len(visits) = 3
    /\ visits[1].pos = 3 /\ visits[1].fault = "read"
    /\ visits[3].pos = 1 /\ run.saves >= 1

\* C13 as stated: when the flush triggered by the counter reaching the save
\* interval fails, the failure is logged, the run goes on, the in-memory
\* cache is unchanged and the counter is reset, so that the next attempt
\* comes a full interval of actioned items later (or at the final save) and
\* not at the next actioned item.
C13_FailedFlushResetsCounter ==
    /\ (last.flushed = "failed" /\ pc \in {"processing", "saving"}) =>
          /\ invalid_log # <<>>
          /\ invalid_log[Len(invalid_log)].rec = "CacheSaveError"
          /\ items_since_last_save = 0
    /\ (last.flushed # "no" /\ pc \in {"processing", "saving"}) =>
          last.since_before + 1 = cache_save_interval

\* C14 as stated: for any sequence of runs on one instance, processedCount
\* and itemsSinceLastCacheSave are both 0 when a run enters Processing, and
\* the processedCount reported at the end of a run is the number of items
\* actioned in that run.
C14_CountersZeroOnEntry ==
    /\ (pc = "processing" /\ visits = <<>>) =>
          (processed_count = 0 /\ items_since_last_save = 0)
    /\ pc = "done" => processed_count = run.actioned

\* C15: with an empty or null resolved sender no sender rule fires, a
\* senderOnly one included, and classification goes on to the keyword rules;
\* with a non-empty resolved sender that, lowercased, is a key of the sender
\* map, the sender rule fires whatever its senderOnly flag, the subject and
\* the body are.
C15_SenderOnly ==
    last.classified =>
        LET s == Lower(IF last.sender = <<>> THEN <<>> ELSE last.sender[1])
            keyed == {k \in 1..Len(email_rules) : email_rules[k].key = s}
            d == last.decision
        IN /\ s = <<>> =>
                 /\ d.fired \in {"keyword", "none"}
                 /\ keyword_rules # <<>> => d.consulted >= 1
                 /\ d.fired = "none" => d.consulted = Len(keyword_rules)
           /\ (s # <<>> /\ keyed # {}) =>
                 /\ d.fired = "email" /\ d.trigger = s
                 /\ \A k \in keyed : d.dest = email_rules[k].val.dest
                 /\ last.executed

\* C15 witness: the map holds a senderOnly rule, the sender of the message
\* did not resolve, and a keyword rule fired instead.
C15_Witness ==
    /\ last.classified /\ last.sender = <<>>
    /\ \E k \in 1..Len(email_rules) : email_rules[k].val.sender_only
    /\ last.decision.fired = "keyword"

\* The handles (lowercased) of the rows of an SMTP_Cache sheet.
SheetHandles(sheet) ==
    IF sheet = <<>> THEN {}
    ELSE {Lower(sheet[1][n].ExchangeAddress) : n \in 1..Len(sheet[1])}

\* C16 as stated: every handle of the persisted cache table at startup, and
\* every handle added to the in-memory cache during the run, is a key of the
\* in-memory cache at every later point, and is a row of the persisted table
\* after every flush, also when loading the table at startup failed.
C16_NoEviction ==
    pc # "new" =>
        LET startup == SheetHandles(snap.cache_sheet)
            added == {h \in Handles : \E k \in 1..Len(requests[h]) : requests[h][k] = "user"}
            keys == {smtp_cache[c].key : c \in 1..Len(smtp_cache)}
        IN /\ startup \cup added \subseteq keys
           /\ (run.saves > 0 /\ ~run.flush_failed) =>
                 startup \subseteq SheetHandles(cache_sheet)
           /\ (pc = "done" /\ ~run.flush_failed) =>
                 added \subseteq SheetHandles(cache_sheet)

\* C17: when no sender rule fires, the keyword rule that fires is the first
\* in map order whose trigger is a substring of the lowercased subject (scope
\* subject_only) or of the lowercased subject or body (subject_and_body); a
\* subject_only rule whose trigger is only in the body does not fire; when
\* no rule satisfies its scope the decision is unmatched and nothing is
\* executed.
C17_FirstKeywordInMapOrder ==
    (last.classified /\ last.decision.fired # "email") =>
        LET subject == Lower(items[last.id].Subject)
            body == Lower(items[last.id].Body)
            within(kw, text) ==
                \E a, b \in 0..Len(text) : a < b /\ SubSeq(text, a + 1, b) = kw
            satisfied ==
                {k \in 1..Len(keyword_rules) :
                    \/ within(keyword_rules[k].key, subject)
                    \/ /\ keyword_rules[k].val.field = "subject_and_body"
                       /\ within(keyword_rules[k].key, body)}
            d == last.decision
        IN IF satisfied = {}
           THEN /\ d.fired = "none" /\ ~last.executed
                /\ ~last.removed /\ ~last.moved
           ELSE LET first == CHOOSE k \in satisfied : \A j \in satisfied : k <= j
                IN /\ d.fired = "keyword" /\ last.executed
                   /\ d.trigger = keyword_rules[first].key
                   /\ d.dest = keyword_rules[first].val.dest
                   /\ d.match_type = "KeywordMatch"

\* C17 witness: a subject_only rule whose trigger is in the body of the
\* message and not in its subject; the decision is unmatched.
C17_Witness ==
    /\ last.classified /\ last.decision.fired = "none" /\ ~last.executed
    /\ \E k \in 1..Len(keyword_rules) :
          /\ keyword_rules[k].val.field = "subject_only"
          /\ Contains(keyword_rules[k].key, Lower(items[last.id].Body))
          /\ ~Contains(keyword_rules[k].key, Lower(items[last.id].Subject))

\* C18: an item whose class is not the mail class is never handed to
\* process_email, never removed or relocated and never counted, and its
\* visit still moves the loop to the next lower position.
C18_OnlyMailClassified ==
    /\ \A id \in DOMAIN items :
          items[id].Class # MAIL_ITEM_CLASS =>
              /\ id \notin deleted
              /\ \A f \in DOMAIN store : id \in Range(store[f]) <=> f = Inbox
    /\ (last.read /\ last.id \in DOMAIN items
        /\ items[last.id].Class # MAIL_ITEM_CLASS) =>
          /\ ~last.mail /\ ~last.classified /\ ~last.executed
          /\ ~last.removed /\ ~last.moved /\ last.requested = <<>>
          /\ last.flushed = "no"
          /\ processed_count = last.count_before
          /\ pc \in {"processing", "saving"} =>
                items_since_last_save = last.since_before
          /\ pc = "processing" => i = last.pos - 1
          /\ pc \in {"processing", "saving", "done"} =>
                store[target_folder][last.pos] = last.id

\* C18 witness: a meeting request was visited, after a mail item above it
\* had been deleted, and the loop stands one position below it.
C18_Witness ==
    /\ pc = "processing" /\ last.read /\ last.fault = "none"
    /\ items[last.id].Class = 53
    /\ i = last.pos - 1 /\ deleted # {}

\* C19: every invocation calls CoInitialize once, before anything else, and
\* CoUninitialize once, on every way out (done, archive not found, segment
\* not found, an exception in the run); the mail store is not touched before
\* the first nor after the second.
C19_InitAndTeardownOnce ==
    /\ [](/\ co.init = Invocations - runs_left
          /\ pc \in {"new", "idle"} => (co.init = 0 /\ co.uninit = 0)
          /\ pc \in {"resolvingArchive", "resolvingTarget", "processing", "saving"}
                => co.init = co.uninit + 1
          /\ pc \in {"done", "failed", "error"} => co.init = co.uninit)
    /\ [][/\ co.init = co.uninit => (store' = store /\ deleted' = deleted
                                     /\ visits' \in {visits, <<>>})
          /\ co'.init \in {co.init, co.init + 1}
          /\ co'.uninit \in {co.uninit, co.uninit + 1}]_vars

\* C19 witness: a run ended by an exception, initialised and torn down once.
C19_Witness == pc = "error" /\ co.init = 1 /\ co.uninit = 1

\* C20 as stated: once the run has been started from the window, the
\* process does not exit before the run has reached its end: every position
\* visited, the final save performed, the completion reported.
C20_RunCompletesBeforeExit ==
    ~alive =>
        /\ pc \in {"done", "failed", "error"}
        /\ pc = "done" => (run.saves >= 1 /\ Len(visits) = Len(orig))

=============================================================================
